---- MODULE Spec2Model ----
(***************************************************************************)
(* Model of the collage engine of src/collage_service.py: one call of      *)
(* create_collage(images, max_width, max_height), from entry to its return *)
(* or to the exception that leaves it; further calls (SpecRepeat);         *)
(* and create_collage_from_urls around it (SpecUrls).                      *)
(*                                                                         *)
(* An image is modelled by its size <<width, height>>; the canvas by its   *)
(* size and by the ordered list of drawing steps performed on it, each     *)
(* with the inclusive pixel rectangle it touches.  PIL's float arithmetic  *)
(* on the geometry (x * 0.02, x * 0.1, x * 0.15, int()) is modelled in     *)
(* exact hundredths; the two agree for every max_width in 0..6000.         *)
(***************************************************************************)
EXTENDS Integers, Sequences, FiniteSets, TLC

VARIABLES
    pc,                 \* control point of the call
    images,             \* the caller's image objects (live sizes)
    source_sizes,       \* sizes of the caller's images when the call was made
    max_width,
    max_height,
    geo,                \* grid geometry (lines 139-171)
    collage,            \* size of the allocated canvas, None before
    processed_images,   \* the normalised tiles (sizes)
    drawn,              \* drawing steps performed on the canvas, in order
    result,             \* first component of the returned pair
    error,              \* second component of the returned pair
    like_count,
    comment_count,
    prev,               \* layout of an earlier finished grid build
    caller              \* frame of create_collage_from_urls, when it is the caller

callerVars == <<prev, caller>>

vars == <<pc, images, source_sizes, max_width, max_height, geo, collage,
          processed_images, drawn, result, error, like_count, comment_count,
          prev, caller>>

(***************************************************************************)
(* Bounds of the model.                                                    *)
(***************************************************************************)
MaxImages == 12     \* image counts 0..MaxImages
MaxWidth == 280     \* grid builds: max_width in 0..MaxWidth, and the defaults
MaxSide == 7        \* single-image builds: max_width, max_height in 0..MaxSide
MaxDim == 6         \* single-image builds: image sides in 1..MaxDim
RepeatMaxImages == 7    \* repeated builds: image counts 0..RepeatMaxImages
MaxUrls == 3            \* create_collage_from_urls: URL lists of length 0..MaxUrls
RepeatSpan == 1         \* repeated builds: max_width in MaxWidth-RepeatSpan..MaxWidth, and 0

(***************************************************************************)
(* Program constants.                                                      *)
(***************************************************************************)
DefaultMax == 2048          \* create_collage(max_width=2048, max_height=2048)
UrlDefaultMax == 4096       \* create_collage_from_urls(max_width=4096, ...)
SPACING_PERCENT == 2        \* 0.02, in hundredths
TOP_PERCENT == 10           \* 0.1, in hundredths
BOTTOM_PERCENT == 15        \* 0.15, in hundredths
FallbackCols == 5
frame_width == 40
border_width == 1
shadow_width == 5
shadow_margin == 5
label_bg_size == 32
label_margin == 6
logo_width == 120
camera_icon_size == 30
LikeMin == 100
LikeMax == 999
CommentMin == 10
CommentMax == 99

None == <<>>
NoError == "None"
EmptyError == "No images provided for collage"

Min(a, b) == IF a <= b THEN a ELSE b
Max(a, b) == IF a >= b THEN a ELSE b
Abs(a) == IF a >= 0 THEN a ELSE -a

\* Python's int(num / den) for den > 0: truncation toward zero.
IntTrunc(num, den) == IF num >= 0 THEN num \div den ELSE -((-num) \div den)

\* math.ceil(num / den) for num >= 0, den > 0.
Ceil(num, den) == (num + den - 1) \div den

NoLayout ==
    [computed |-> FALSE, cols |-> 0, rows |-> 0, cell_width |-> 0,
     cell_height |-> 0, SPACING |-> 0, actual_width |-> 0, actual_height |-> 0,
     TOP_PADDING |-> 0, BOTTOM_PADDING |-> 0, SIDE_PADDING |-> 0,
     collage_width |-> 0, collage_height |-> 0]

NumImages == Len(images)

\* `not images`
IsEmptyNever(imgs) == FALSE
IsEmpty(imgs) == Len(imgs) = 0

(***************************************************************************)
(* Grid shape selection (lines 125-145).                                   *)
(***************************************************************************)
optimal_layouts ==
    [n \in 1..10 |->
        CASE n = 1 -> <<1, 1>>
          [] n = 2 -> <<2, 1>>
          [] n = 3 -> <<3, 1>>
          [] n = 4 -> <<2, 2>>
          [] n = 5 -> <<5, 1>>
          [] n = 6 -> <<3, 2>>
          [] n = 7 -> <<3, 3>>
          [] n = 8 -> <<4, 2>>
          [] n = 9 -> <<3, 3>>
          [] n = 10 -> <<5, 2>>]

GridShapeSquarish(n) ==
    IF n \in DOMAIN optimal_layouts /\ n # 7
    THEN optimal_layouts[n]
    ELSE IF n = 7 THEN <<4, 2>>
    ELSE <<FallbackCols, n \div FallbackCols>>
GridShape(n) ==
    IF n \in DOMAIN optimal_layouts
    THEN optimal_layouts[n]
    ELSE <<FallbackCols, Ceil(n, FallbackCols)>>

(***************************************************************************)
(* Geometry (lines 148-171).                                               *)
(***************************************************************************)
\* avail_width = max_width - ((cols - 1) * (max_width * SPACING_PERCENT)),
\* in hundredths of a pixel.
AvailWidth100(mw, cols) == 100 * mw - (cols - 1) * (mw * SPACING_PERCENT)

CellWidthNoGaps(mw, cols) == IntTrunc(100 * mw, 100 * cols)
CellWidth(mw, cols) == IntTrunc(AvailWidth100(mw, cols), 100 * cols)

SpacingOf(cw) == IntTrunc(cw * SPACING_PERCENT, 100)
TopPaddingOf(ch) == IntTrunc(ch * TOP_PERCENT, 100)
BottomPaddingOf(ch) == IntTrunc(ch * BOTTOM_PERCENT, 100)

LayoutForWidth(n, mw) ==
    LET shape == GridShape(n)
        cols == shape[1]
        rows == shape[2]
        cw == CellWidth(mw, cols)
        ch == cw
        sp == SpacingOf(cw)
        aw == (cw * cols) + (sp * (cols - 1))
        ah == (ch * rows) + (sp * (rows - 1))
        top == TopPaddingOf(ch)
        bottom == BottomPaddingOf(ch)
        side == sp
    IN  [computed |-> TRUE, cols |-> cols, rows |-> rows, cell_width |-> cw,
         cell_height |-> ch, SPACING |-> sp, actual_width |-> aw,
         actual_height |-> ah, TOP_PADDING |-> top, BOTTOM_PADDING |-> bottom,
         SIDE_PADDING |-> side, collage_width |-> aw + (side * 2),
         collage_height |-> ah + top + bottom]

LayoutFitHeight(n, mw) == LayoutForWidth(n, Min(mw, max_height))
Layout(n, mw) == LayoutForWidth(n, mw)

(***************************************************************************)
(* Image.thumbnail((x, y)) on an image of size (w, h), all >= 1, called    *)
(* when x < w or y < h (line 82).  The new size keeps the aspect ratio:    *)
(* round_aspect takes the floor or the ceiling of the scaled side,         *)
(* whichever is closer in aspect, at least 1.  The library compares the    *)
(* two in floating point; where they are exactly equal either may win.     *)
(***************************************************************************)
RoundAspect(lo, hi, keyLo, keyHi) ==
    {Max(n, 1) : n \in (IF keyLo < keyHi THEN {lo}
                        ELSE IF keyHi < keyLo THEN {hi}
                        ELSE {lo, hi})}

ThumbnailStretch(w, h, x, y) == {<<x, y>>}
ThumbnailSizes(w, h, x, y) ==
    IF x * h >= w * y
    THEN LET lo == (y * w) \div h
             hi == Ceil(y * w, h)
         IN  {<<n, y>> : n \in RoundAspect(lo, hi, Abs(w * y - lo * h),
                                           Abs(w * y - hi * h))}
    ELSE LET lo == (x * h) \div w
             hi == Ceil(x * h, w)
         IN  {<<x, n>> : n \in
                 (IF lo = 0 THEN {1}
                  ELSE RoundAspect(lo, hi, Abs(w * lo - x * h) * hi,
                                   Abs(w * hi - x * h) * lo))}

\* thumbnail divides by the requested height and resizes to the computed
\* size: a requested side of 0 ends in ZeroDivisionError or ValueError.
ThumbnailRaises(x, y) == x < 1 \/ y < 1

\* line 81
NeedsResize(img, mw, mh) == img[1] > mw \/ img[2] > mh

\* ImageOps.expand(img, border=frame_width) and Image.new(..., frame_img.size)
FrameSizeBorderOnce(sz) == <<sz[1] + frame_width, sz[2] + frame_width>>
FrameSize(sz) == <<sz[1] + 2 * frame_width, sz[2] + 2 * frame_width>>

(***************************************************************************)
(* Drawing steps: kind, the 0-based tile the step belongs to (-1: none),   *)
(* and the inclusive rectangle of pixels it may touch.  An "outline" step  *)
(* touches only the border of its rectangle, `width` pixels thick.         *)
(***************************************************************************)
Op(kind, tile, x0, y0, x1, y1) ==
    [kind |-> kind, tile |-> tile, x0 |-> x0, y0 |-> y0, x1 |-> x1, y1 |-> y1]

\* Python's round() of the half-integer twice2 / 2 (ties to even), as
\* Image._crop applies it to the crop box.
PyRoundHalf(twice2) ==
    IF twice2 % 2 = 0 THEN twice2 \div 2
    ELSE LET lo == (twice2 - 1) \div 2
         IN  IF lo % 2 = 0 THEN lo ELSE lo + 1

\* lines 213-225: size of img.crop((left, top, right, bottom))
CropSize(img) ==
    LET width == img[1]
        height == img[2]
        min_dim == Min(width, height)
    IN  <<PyRoundHalf(width + min_dim) - PyRoundHalf(width - min_dim),
          PyRoundHalf(height + min_dim) - PyRoundHalf(height - min_dim)>>

\* lines 229-241: the enhancers take the mean of the crop and resize wants a
\* target of at least 1x1; an empty crop or an empty cell raises.
NormalizeRaises(img, cw, ch) ==
    \/ CropSize(img)[1] < 1
    \/ CropSize(img)[2] < 1
    \/ cw < 1
    \/ ch < 1

(***************************************************************************)
(* Single-image branch (lines 76-116): the inset shadow outlines and the   *)
(* paste of the image onto the framed canvas.                              *)
(***************************************************************************)
SingleOps(frame) ==
    [k \in 1..shadow_width |->
        Op("inner_shadow", -1,
           frame_width - shadow_width + (k - 1),
           frame_width - shadow_width + (k - 1),
           frame[1] - frame_width + shadow_width - (k - 1),
           frame[2] - frame_width + shadow_width - (k - 1))]
    \o <<Op("image", 0, frame_width, frame_width,
            frame[1] - frame_width - 1, frame[2] - frame_width - 1)>>

(***************************************************************************)
(* Header (lines 246-285): the camera icon, drawn before any tile.         *)
(***************************************************************************)
HeaderOps(g) ==
    LET header_y == g.TOP_PADDING \div 2
        logo_x == g.SIDE_PADDING
        camera_x == logo_x + logo_width + 10
        camera_y == header_y - camera_icon_size \div 2
        lens_size == camera_icon_size \div 2
        lens_x == camera_x + (camera_icon_size - lens_size) \div 2
        lens_y == camera_y + (camera_icon_size - lens_size) \div 2
        viewfinder_size == camera_icon_size \div 5
        viewfinder_x == camera_x + camera_icon_size - viewfinder_size - 3
        viewfinder_y == camera_y + 3
    IN  <<Op("header", -1, camera_x, camera_y,
             camera_x + camera_icon_size, camera_y + camera_icon_size),
          Op("header", -1, lens_x, lens_y, lens_x + lens_size, lens_y + lens_size),
          Op("header", -1, viewfinder_x, viewfinder_y,
             viewfinder_x + viewfinder_size, viewfinder_y + viewfinder_size)>>

(***************************************************************************)
(* Placement of tile i, 0-based (lines 288-408).                           *)
(***************************************************************************)
GridXPlain(n, i, cols) == i % cols
GridXAnySeventh(n, i, cols) == IF i = 6 THEN 1 ELSE i % cols
GridX(n, i, cols) == IF n = 7 /\ i = 6 THEN 1 ELSE i % cols

GridY(i, cols) == i \div cols

TileX(g, grid_x) == g.SIDE_PADDING + grid_x * (g.cell_width + g.SPACING)
TileY(g, grid_y) == g.TOP_PADDING + grid_y * (g.cell_height + g.SPACING)

\* draw.rectangle([x - 1, y - 1, x + cell_width + 1, y + cell_height + 1],
\*                outline=frame_color, width=border_width)
FrameOp(g, i, x, y) ==
    Op("frame", i, x - border_width, y - border_width,
       x + g.cell_width + border_width, y + g.cell_height + border_width)

\* collage.paste(shadow_blur, (x - 5, y - 5), shadow_blur), the shadow image
\* being (cell_width + 10) x (cell_height + 10)
ShadowOp(g, i, x, y) ==
    Op("shadow", i, x - shadow_margin, y - shadow_margin,
       x - shadow_margin + (g.cell_width + 2 * shadow_margin) - 1,
       y - shadow_margin + (g.cell_height + 2 * shadow_margin) - 1)

\* collage.paste(img_with_corners, (x, y), mask)
TileOp(g, i, x, y) ==
    Op("tile", i, x, y, x + g.cell_width - 1, y + g.cell_height - 1)

\* collage.paste(number_badge, (badge_x, badge_y), number_badge)
BadgeOp(g, i, x, y) ==
    LET badge_x == x + g.cell_width - label_bg_size - label_margin
        badge_y == y + label_margin
    IN  Op("badge", i, badge_x, badge_y,
           badge_x + label_bg_size - 1, badge_y + label_bg_size - 1)

PlaceOps(g, n, i) ==
    LET x == TileX(g, GridX(n, i, g.cols))
        y == TileY(g, GridY(i, g.cols))
    IN  <<FrameOp(g, i, x, y), ShadowOp(g, i, x, y),
          TileOp(g, i, x, y), BadgeOp(g, i, x, y)>>

(***************************************************************************)
(* Footer (lines 410-548).  Text is drawn from its anchor rightwards and   *)
(* downwards; its extent depends on the font, so its step is given the     *)
(* rectangle from the anchor to the canvas corner.                         *)
(***************************************************************************)
FooterY(g) == g.collage_height - g.BOTTOM_PADDING + (g.BOTTOM_PADDING \div 3)

FooterOps(g) ==
    LET footer_y == FooterY(g)
        footer_x == g.SIDE_PADDING
        footer_text_y == footer_y + 15
        icons_y == footer_text_y + 35
        heart_x == g.SIDE_PADDING
        comment_x == heart_x + 50 + 20
        share_x == comment_x + 50 + 10
        bookmark_x == g.collage_width - g.SIDE_PADDING - 20
        right == g.collage_width - 1
        bottom == g.collage_height - 1
    IN  <<Op("footer", -1, g.SIDE_PADDING, footer_y,
             g.collage_width - g.SIDE_PADDING, footer_y),
          Op("footer", -1, footer_x, footer_text_y, right, bottom),
          Op("footer", -1, 0, footer_text_y, right, bottom),
          Op("footer", -1, heart_x + 4, icons_y - 8, heart_x + 24 - 4, icons_y + 8),
          Op("footer", -1, heart_x + 24 + 5, icons_y - 8, right, bottom),
          Op("footer", -1, comment_x, icons_y - 10, comment_x + 22, icons_y + 6),
          Op("footer", -1, comment_x + 22 + 5, icons_y - 8, right, bottom),
          Op("footer", -1, share_x, icons_y - 8, share_x + 20, icons_y + 4),
          Op("footer", -1, bookmark_x, icons_y - 10, bookmark_x + 20, icons_y + 10)>>

PlacedCount == Cardinality({k \in DOMAIN drawn : drawn[k].kind = "tile"})

(***************************************************************************)
(* Inputs of a call.                                                       *)
(***************************************************************************)
Defaults == {DefaultMax, UrlDefaultMax}
GridImageSizes == {<<3, 2>>, <<4, 1>>}

\* No earlier build is remembered.
NoPrev ==
    [valid |-> FALSE, n |-> 0, mw |-> 0, mh |-> 0, like |-> 0, comment |-> 0,
     geo |-> NoLayout, collage |-> None, origins |-> <<>>]

\* create_collage is called directly.
NoCaller ==
    [pc |-> "none", urls |-> <<>>, attempted |-> 0, file_written |-> FALSE,
     filename |-> "None", error |-> "None"]

InitCommon ==
    /\ pc = "call"
    /\ prev = NoPrev
    /\ caller = NoCaller
    /\ source_sizes = images
    /\ geo = NoLayout
    /\ collage = None
    /\ processed_images = <<>>
    /\ drawn = <<>>
    /\ result = None
    /\ error = NoError
    /\ like_count = 0
    /\ comment_count = 0

Init ==
    /\ \/ /\ \E n \in (0..MaxImages) \ {1} : \E sz \in GridImageSizes :
                images = [k \in 1..n |-> sz]
          /\ max_width \in (0..MaxWidth) \cup Defaults
          /\ max_height \in Defaults
       \/ /\ \E w \in 1..MaxDim : \E h \in 1..MaxDim : images = << <<w, h>> >>
          /\ max_width \in (0..MaxSide) \cup {DefaultMax}
          /\ max_height \in (0..MaxSide) \cup {DefaultMax}
    /\ InitCommon

(***************************************************************************)
(* Actions.                                                                *)
(***************************************************************************)
\* lines 70-71
ReturnEmpty ==
    /\ pc = "call"
    /\ UNCHANGED callerVars
    /\ IsEmpty(images)
    /\ result' = None
    /\ error' = EmptyError
    /\ pc' = "done"
    /\ UNCHANGED <<images, source_sizes, max_width, max_height, geo, collage,
                   processed_images, drawn, like_count, comment_count>>

\* lines 76-116
SingleImage ==
    /\ pc = "call"
    /\ UNCHANGED callerVars
    /\ ~IsEmpty(images)
    /\ NumImages = 1
    /\ LET img == images[1]
           shrink == NeedsResize(img, max_width, max_height)
       IN  \/ /\ shrink
              /\ ThumbnailRaises(max_width, max_height)
              /\ pc' = "raised"
              /\ UNCHANGED <<images, collage, drawn, result, error>>
           \/ /\ ~(shrink /\ ThumbnailRaises(max_width, max_height))
              /\ \E sz \in (IF shrink
                            THEN ThumbnailSizes(img[1], img[2], max_width, max_height)
                            ELSE {img}) :
                    \* img.thumbnail works on the caller's object
                    /\ images' = [images EXCEPT ![1] = sz]
                    /\ collage' = FrameSize(sz)
                    /\ drawn' = SingleOps(FrameSize(sz))
                    /\ result' = FrameSize(sz)
                    /\ error' = NoError
                    /\ pc' = "done"
    /\ UNCHANGED <<source_sizes, max_width, max_height, geo, processed_images,
                   like_count, comment_count>>

\* lines 125-196
ComputeLayout ==
    /\ pc = "call"
    /\ UNCHANGED callerVars
    /\ ~IsEmpty(images)
    /\ NumImages # 1
    /\ geo' = Layout(NumImages, max_width)
    /\ collage' = <<geo'.collage_width, geo'.collage_height>>
    /\ pc' = "process"
    /\ UNCHANGED <<images, source_sizes, max_width, max_height, processed_images,
                   drawn, result, error, like_count, comment_count>>

\* lines 211-244
ProcessImages ==
    /\ pc = "process"
    /\ UNCHANGED callerVars
    /\ LET bad == {k \in 1..NumImages :
                      NormalizeRaises(images[k], geo.cell_width, geo.cell_height)}
           tile == <<geo.cell_width, geo.cell_height>>
       IN  IF bad = {}
           THEN /\ processed_images' = [k \in 1..NumImages |-> tile]
                /\ pc' = "header"
           ELSE /\ processed_images' =
                       [k \in 1..((CHOOSE b \in bad : \A c \in bad : b <= c) - 1) |-> tile]
                /\ pc' = "raised"
    /\ UNCHANGED <<images, source_sizes, max_width, max_height, geo, collage,
                   drawn, result, error, like_count, comment_count>>

\* lines 246-285
DrawHeader ==
    /\ pc = "header"
    /\ UNCHANGED callerVars
    /\ drawn' = drawn \o HeaderOps(geo)
    /\ pc' = "place"
    /\ UNCHANGED <<images, source_sizes, max_width, max_height, geo, collage,
                   processed_images, result, error, like_count, comment_count>>

\* lines 288-408, one iteration
PlaceTile ==
    /\ pc = "place"
    /\ UNCHANGED callerVars
    /\ PlacedCount < Len(processed_images)
    /\ PlacedCount < NumImages
    /\ drawn' = drawn \o PlaceOps(geo, NumImages, PlacedCount)
    /\ UNCHANGED <<pc, images, source_sizes, max_width, max_height, geo, collage,
                   processed_images, result, error, like_count, comment_count>>

\* lines 410-550
DrawFooter ==
    /\ pc = "place"
    /\ UNCHANGED callerVars
    /\ ~(PlacedCount < Len(processed_images) /\ PlacedCount < NumImages)
    /\ drawn' = drawn \o FooterOps(geo)
    /\ like_count' \in {LikeMin, LikeMax}
    /\ comment_count' \in {CommentMin, CommentMax}
    /\ result' = collage
    /\ error' = NoError
    /\ pc' = "done"
    /\ UNCHANGED <<images, source_sizes, max_width, max_height, geo, collage,
                   processed_images>>

Next ==
    \/ ReturnEmpty
    \/ SingleImage
    \/ ComputeLayout
    \/ ProcessImages
    \/ DrawHeader
    \/ PlaceTile
    \/ DrawFooter

Spec == Init /\ [][Next]_vars

(***************************************************************************)
(* Properties.                                                             *)
(***************************************************************************)
EmptyCall == Len(source_sizes) = 0
SingleCall == Len(source_sizes) = 1
GridCall == Len(source_sizes) >= 2

\* C1: create_collage with an empty image list returns (None, non-null error
\* message), allocates no canvas, computes no layout, draws nothing and does
\* not raise.
C1_EmptyReturnsError ==
    EmptyCall =>
        /\ pc \in {"call", "done"}
        /\ collage = None
        /\ geo = NoLayout
        /\ drawn = <<>>
        /\ pc = "done" => (result = None /\ error # NoError)

C1_Witness == EmptyCall /\ pc = "done" /\ error = EmptyError

\* C2: once the grid shape is chosen, (cols, rows) is the fixed table entry
\* for counts 2..10, and for counts above 10 cols is 5 and rows is
\* ceil(count / 5), the only r with 5 * (r - 1) < count <= 5 * r.
C2_Table(n) ==
    CASE n = 2 -> <<2, 1>>
      [] n = 3 -> <<3, 1>>
      [] n = 4 -> <<2, 2>>
      [] n = 5 -> <<5, 1>>
      [] n = 6 -> <<3, 2>>
      [] n = 7 -> <<3, 3>>
      [] n = 8 -> <<4, 2>>
      [] n = 9 -> <<3, 3>>
      [] n = 10 -> <<5, 2>>

C2_GridShape ==
    (GridCall /\ geo.computed) =>
        /\ NumImages \in 2..10 => <<geo.cols, geo.rows>> = C2_Table(NumImages)
        /\ NumImages > 10 =>
              /\ geo.cols = 5
              /\ 5 * (geo.rows - 1) < NumImages
              /\ NumImages <= 5 * geo.rows

C2_Witness ==
    /\ pc = "done"
    /\ NumImages = 11
    /\ geo.computed
    /\ geo.rows = 3

\* C3: for every count >= 2 and every max_width >= 0 the geometry is
\* cellWidth = cellHeight = floor(availableWidth / columns) with
\* availableWidth = max_width - (columns - 1) * max_width * 0.02,
\* spacing = floor(cellWidth * 0.02), topPadding = floor(cellHeight * 0.10),
\* bottomPadding = floor(cellHeight * 0.15), sidePadding = spacing, and the
\* canvas, allocated and returned, is exactly
\* cellWidth * columns + spacing * (columns - 1) + 2 * sidePadding wide and
\* cellHeight * rows + spacing * (rows - 1) + topPadding + bottomPadding high.
\* (floor(p / q) = f is stated as f * q <= p < (f + 1) * q.)
C3_IsFloor(f, p, q) == f * q <= p /\ p < (f + 1) * q

C3_Geometry ==
    (GridCall /\ geo.computed) =>
        LET cw == geo.cell_width
            ch == geo.cell_height
            sp == geo.SPACING
            size == <<cw * geo.cols + sp * (geo.cols - 1) + 2 * geo.SIDE_PADDING,
                      ch * geo.rows + sp * (geo.rows - 1)
                        + geo.TOP_PADDING + geo.BOTTOM_PADDING>>
        IN  /\ ch = cw
            /\ C3_IsFloor(cw, 100 * max_width - (geo.cols - 1) * max_width * 2,
                          100 * geo.cols)
            /\ C3_IsFloor(sp, cw * 2, 100)
            /\ C3_IsFloor(geo.TOP_PADDING, ch * 10, 100)
            /\ C3_IsFloor(geo.BOTTOM_PADDING, ch * 15, 100)
            /\ geo.SIDE_PADDING = sp
            /\ collage # None => collage = size
            /\ pc = "done" => (result = size /\ error = NoError)

C3_Witness ==
    /\ GridCall
    /\ pc = "done"
    /\ geo.SPACING >= 1
    /\ geo.rows >= 2
    /\ result = <<geo.collage_width, geo.collage_height>>

\* C4: in the grid path the tile at 0-based index i is pasted at
\* (sidePadding + gx * (cellWidth + spacing),
\*  topPadding + gy * (cellHeight + spacing)) with gx = i % columns and
\* gy = i // columns, except that gx is 1 for i = 6 of a 7-image collage;
\* tiles are pasted in index order and a finished build has pasted every
\* index in [0, count).
C4_TileIndexes == {drawn[k].tile : k \in {j \in DOMAIN drawn : drawn[j].kind = "tile"}}

C4_TilePlacement ==
    GridCall =>
        /\ \A k \in DOMAIN drawn :
              drawn[k].kind = "tile" =>
                  LET i == drawn[k].tile
                      gx == IF NumImages = 7 /\ i = 6 THEN 1 ELSE i % geo.cols
                      gy == i \div geo.cols
                  IN  /\ drawn[k].x0 = geo.SIDE_PADDING + gx * (geo.cell_width + geo.SPACING)
                      /\ drawn[k].y0 = geo.TOP_PADDING + gy * (geo.cell_height + geo.SPACING)
        /\ C4_TileIndexes = 0..(PlacedCount - 1)
        /\ pc = "done" => PlacedCount = NumImages

C4_Witness ==
    /\ pc = "done"
    /\ NumImages = 7
    /\ geo.SPACING >= 1
    /\ \E k \in DOMAIN drawn :
          /\ drawn[k].kind = "tile"
          /\ drawn[k].tile = 6
          /\ drawn[k].x0 = geo.SIDE_PADDING + geo.cell_width + geo.SPACING
          /\ drawn[k].y0 = geo.TOP_PADDING + 2 * (geo.cell_height + geo.SPACING)

\* C5: with exactly one image of size (w, h) no grid geometry is computed;
\* the image keeps its size unless w > max_width or h > max_height, and then
\* becomes (w', h') with w' <= max_width, h' <= max_height, w' <= w, h' <= h;
\* the returned image is exactly (w' + 80, h' + 80).
C5_SingleImagePath ==
    SingleCall =>
        /\ geo = NoLayout
        /\ pc = "done" =>
              LET w == source_sizes[1][1]
                  h == source_sizes[1][2]
                  w2 == images[1][1]
                  h2 == images[1][2]
              IN  /\ (w <= max_width /\ h <= max_height) => (w2 = w /\ h2 = h)
                  /\ w2 <= max_width
                  /\ h2 <= max_height
                  /\ w2 <= w
                  /\ h2 <= h
                  /\ w2 >= 1
                  /\ h2 >= 1
                  /\ result = <<w2 + 80, h2 + 80>>
                  /\ error = NoError

C5_Witness ==
    /\ SingleCall
    /\ pc = "done"
    /\ source_sizes[1][1] > max_width
    /\ images[1] # source_sizes[1]
    /\ result = <<images[1][1] + 80, images[1][2] + 80>>

\* C6: every call ends by returning a (result, error) pair, never by an
\* exception leaving create_collage; every non-empty list yields
\* (image, None), and the error is non-null only for the empty list.
C6_AlwaysReturnsPair ==
    /\ pc # "raised"
    /\ pc = "done" => (error # NoError <=> EmptyCall)
    /\ pc = "done" => (result = None <=> EmptyCall)

\* C7: the caller's image objects have the same size after the call as
\* before it, in the single-image path and in the grid path.
C7_SourcesUnchanged == images = source_sizes

\* C8: in the grid path the collage is never wider than max_width.
C8_GridWidthWithinMax ==
    (GridCall /\ geo.computed) => geo.collage_width <= max_width

\* C9: in the single-image branch the returned canvas, frame included, is
\* never wider than max_width.
C9_SingleWidthWithinMax ==
    (SingleCall /\ pc = "done") => result[1] <= max_width

\* Inclusive pixel rectangles.
RectNonEmpty(a) == a.x0 <= a.x1 /\ a.y0 <= a.y1

Intersects(a, b) ==
    /\ RectNonEmpty(a)
    /\ RectNonEmpty(b)
    /\ a.x0 <= b.x1
    /\ b.x0 <= a.x1
    /\ a.y0 <= b.y1
    /\ b.y0 <= a.y1

\* The pixels a step may change: the border strips of an outline, the whole
\* rectangle of anything else.
StepTouches(op, cell) ==
    IF op.kind = "frame"
    THEN \/ Intersects([op EXCEPT !.x1 = op.x0 + border_width - 1], cell)
         \/ Intersects([op EXCEPT !.x0 = op.x1 - border_width + 1], cell)
         \/ Intersects([op EXCEPT !.y1 = op.y0 + border_width - 1], cell)
         \/ Intersects([op EXCEPT !.y0 = op.y1 - border_width + 1], cell)
    ELSE Intersects(op, cell)

\* C10: after a grid build the cell region of every tile shows that tile: no
\* step drawn after tile i was pasted (the frame outline, the shadow image,
\* the tile or the badge of another tile, or the footer) touches a pixel of
\* tile i's cell region; only tile i's own badge may.
C10_NoForeignCover ==
    GridCall =>
        \A p \in DOMAIN drawn :
            drawn[p].kind = "tile" =>
                \A q \in DOMAIN drawn :
                    (q > p /\ drawn[q].tile # drawn[p].tile)
                        => ~StepTouches(drawn[q], drawn[p])

\* C12: the chosen grid leaves no empty cell, cols * rows = count, for every
\* count >= 2 (table entries and rows of 5 above 10), except count 7, where
\* exactly 2 cells are empty.
C12_NoEmptyCells ==
    (GridCall /\ geo.computed) =>
        geo.cols * geo.rows - NumImages = (IF NumImages = 7 THEN 2 ELSE 0)

\* C13: with cellWidth >= 1 every tile's cell rectangle lies inside the
\* padded area of the canvas, its grid row is below rows, and the cell
\* rectangles of two distinct tiles never overlap.
C13_CellsInsideAndDisjoint ==
    (GridCall /\ geo.computed /\ geo.cell_width >= 1) =>
        \A p \in DOMAIN drawn :
            drawn[p].kind = "tile" =>
                /\ geo.SIDE_PADDING <= drawn[p].x0
                /\ drawn[p].x1 + 1 = drawn[p].x0 + geo.cell_width
                /\ drawn[p].x1 + 1 <= geo.collage_width - geo.SIDE_PADDING
                /\ geo.TOP_PADDING <= drawn[p].y0
                /\ drawn[p].y1 + 1 = drawn[p].y0 + geo.cell_height
                /\ drawn[p].y1 + 1 <= geo.collage_height - geo.BOTTOM_PADDING
                /\ collage = <<geo.collage_width, geo.collage_height>>
                /\ drawn[p].tile \div geo.cols < geo.rows
                /\ drawn[p].y0 < geo.TOP_PADDING + geo.rows * (geo.cell_height + geo.SPACING)
                /\ \A q \in DOMAIN drawn :
                      (drawn[q].kind = "tile" /\ q # p)
                          => ~Intersects(drawn[p], drawn[q])

C13_Witness ==
    /\ pc = "done"
    /\ NumImages = 7
    /\ geo.cell_width >= 1
    /\ geo.SPACING = 0
    /\ PlacedCount = 7

(***************************************************************************)
(* Repeated builds: after a call has ended the process serves another one  *)
(* (src/app.py, one call per request).  Nothing of a call survives it; the *)
(* layout of some earlier finished grid build is remembered in prev.       *)
(***************************************************************************)
IsTileOp(op) == op.kind = "tile"

TileOrigins(d) ==
    LET tiles == SelectSeq(d, IsTileOp)
    IN  [k \in 1..Len(tiles) |-> <<tiles[k].x0, tiles[k].y0>>]

Finished ==
    [valid |-> TRUE, n |-> NumImages, mw |-> max_width, mh |-> max_height,
     like |-> like_count, comment |-> comment_count, geo |-> geo,
     collage |-> result, origins |-> TileOrigins(drawn)]

RepeatWidths == {0} \cup ((MaxWidth - RepeatSpan)..MaxWidth)
RepeatHeights == {MaxSide, DefaultMax}

RepeatInputs(imgs, mw, mh) ==
    /\ \E n \in 0..RepeatMaxImages : \E sz \in GridImageSizes :
          imgs = [k \in 1..n |-> sz]
    /\ mw \in RepeatWidths
    /\ mh \in RepeatHeights

InitRepeat ==
    /\ RepeatInputs(images, max_width, max_height)
    /\ InitCommon

NextCall ==
    /\ pc \in {"done", "raised"}
    /\ caller.pc = "none"
    /\ RepeatInputs(images', max_width', max_height')
    /\ source_sizes' = images'
    /\ pc' = "call"
    /\ geo' = NoLayout
    /\ collage' = None
    /\ processed_images' = <<>>
    /\ drawn' = <<>>
    /\ result' = None
    /\ error' = NoError
    /\ like_count' = 0
    /\ comment_count' = 0
    /\ \/ prev' = prev
       \/ /\ pc = "done"
          /\ Len(source_sizes) >= 2
          /\ prev' = Finished
    /\ UNCHANGED caller

NextRepeat == Next \/ NextCall

SpecRepeat == InitRepeat /\ [][NextRepeat]_vars

\* C11: a grid build with the same image count and the same max_width as an
\* earlier finished grid build has the same grid shape, cell size, spacing,
\* paddings, canvas size and tile origins, whatever max_height and the random
\* like/comment counts of the two builds are and whatever was built between.
C11_SameInputs ==
    /\ prev.valid
    /\ Len(source_sizes) >= 2
    /\ NumImages = prev.n
    /\ max_width = prev.mw

DownloadError == "Failed to download any valid images"
ComposeError == "Failed to create collage"
SaveError == "Error saving collage: "
NoFile == "None"
CollageFile == "collage_<uuid>.jpg"

UrlImageSizes == {<<3, 2>>, <<2, 3>>}
UrlOutcomes == {None} \cup UrlImageSizes
UrlMaxSides == {0, MaxSide, UrlDefaultMax}

\* Python's "x or y" on an error message
OrElse(e, fallback) == IF e = NoError \/ e = "" THEN fallback ELSE e

AppendImageFront(imgs, img) == <<img>> \o imgs
AppendImage(imgs, img) == Append(imgs, img)

InitUrls ==
    /\ \E n \in 0..MaxUrls : \E us \in [1..n -> UrlOutcomes] :
          caller = [pc |-> "download", urls |-> us, attempted |-> 0,
                    file_written |-> FALSE, filename |-> NoFile, error |-> NoError]
    /\ max_width \in UrlMaxSides
    /\ max_height \in UrlMaxSides
    /\ pc = "idle"
    /\ prev = NoPrev
    /\ images = <<>>
    /\ source_sizes = <<>>
    /\ geo = NoLayout
    /\ collage = None
    /\ processed_images = <<>>
    /\ drawn = <<>>
    /\ result = None
    /\ error = NoError
    /\ like_count = 0
    /\ comment_count = 0

callVars ==
    <<pc, images, source_sizes, max_width, max_height, geo, collage, processed_images,
      drawn, result, error, like_count, comment_count>>

\* lines 566-571
Download ==
    /\ caller.pc = "download"
    /\ caller.attempted < Len(caller.urls)
    /\ LET img == caller.urls[caller.attempted + 1]
       IN  images' = IF img # None THEN AppendImage(images, img) ELSE images
    /\ caller' = [caller EXCEPT !.attempted = @ + 1]
    /\ UNCHANGED <<pc, source_sizes, max_width, max_height, geo, collage,
                   processed_images, drawn, result, error, like_count, comment_count, prev>>

\* lines 573-574
AllFailed ==
    /\ caller.pc = "download"
    /\ caller.attempted = Len(caller.urls)
    /\ images = <<>>
    /\ caller' = [caller EXCEPT !.pc = "returned", !.filename = NoFile,
                                !.error = DownloadError]
    /\ UNCHANGED <<callVars, prev>>

\* line 577, entry of create_collage
Compose ==
    /\ caller.pc = "download"
    /\ caller.attempted = Len(caller.urls)
    /\ images # <<>>
    /\ pc' = "call"
    /\ source_sizes' = images
    /\ caller' = [caller EXCEPT !.pc = "compose"]
    /\ UNCHANGED <<images, max_width, max_height, geo, collage, processed_images,
                   drawn, result, error, like_count, comment_count, prev>>

\* lines 578-583, after create_collage has returned
AfterCompose ==
    /\ caller.pc = "compose"
    /\ pc = "done"
    /\ caller' = IF error # NoError \/ result = None
                 THEN [caller EXCEPT !.pc = "returned", !.filename = NoFile,
                                     !.error = OrElse(error, ComposeError)]
                 ELSE [caller EXCEPT !.pc = "save"]
    /\ UNCHANGED <<callVars, prev>>

\* lines 586-593
Save ==
    /\ caller.pc = "save"
    /\ \/ caller' = [caller EXCEPT !.pc = "returned", !.file_written = TRUE,
                                   !.filename = CollageFile, !.error = NoError]
       \/ \E partial \in BOOLEAN :
             caller' = [caller EXCEPT !.pc = "returned", !.file_written = partial,
                                      !.filename = NoFile, !.error = SaveError]
    /\ UNCHANGED <<callVars, prev>>

NextUrls ==
    \/ Download
    \/ AllFailed
    \/ Compose
    \/ SingleImage
    \/ ComputeLayout
    \/ ProcessImages
    \/ DrawHeader
    \/ PlaceTile
    \/ DrawFooter
    \/ AfterCompose
    \/ Save

SpecUrls == InitUrls /\ [][NextUrls]_vars

IsImage(u) == u # None

\* C14: create_collage_from_urls, when it returns, returns exactly one of
\* (filename, None) or (None, non-empty error); a filename only once the file
\* is written from a finished collage; every URL is attempted, failed ones
\* skipped; create_collage receives the downloaded images in URL order; and
\* when every download fails create_collage is not called and no file written.
C14_UrlsContract ==
    /\ caller.pc = "returned" =>
          /\ \/ caller.filename # NoFile /\ caller.error = NoError
             \/ caller.filename = NoFile /\ caller.error \notin {NoError, ""}
          /\ caller.filename # NoFile =>
                caller.file_written /\ pc = "done" /\ result # None /\ result = collage
          /\ caller.attempted = Len(caller.urls)
          /\ SelectSeq(caller.urls, IsImage) = <<>> =>
                /\ pc = "idle"
                /\ collage = None
                /\ ~caller.file_written
                /\ caller.error = DownloadError
    /\ caller.pc \in {"download", "compose", "save"} => ~caller.file_written
    /\ (caller.pc # "none" /\ pc # "idle") =>
          /\ caller.attempted = Len(caller.urls)
          /\ source_sizes = SelectSeq(caller.urls, IsImage)

C14_Witness ==
    /\ caller.pc = "returned"
    /\ caller.filename = CollageFile
    /\ Len(caller.urls) = MaxUrls
    /\ caller.urls[1] = None
    /\ caller.urls[2] # caller.urls[3]
    /\ Len(source_sizes) = 2

====
